---- MODULE Spec2Model ----
(***************************************************************************)
(* Model of pkg/controller/certificates/sync.go: the reconcile pass `sync` *)
(* of one Certificate against its Secret, the issuance path `issue`, and   *)
(* the domain comparator `equalUnsorted`.                                  *)
(*                                                                         *)
(* The work queue runs one pass at a time for a Certificate, and passes of  *)
(* different Certificates concurrently, so a pass is known by its          *)
(* Certificate.  Its interleaving points are the calls that leave the      *)
(* process: Prepare, Issue and the API server's Create.  The lister reads  *)
(* and the checks that follow them are local.                              *)
(***************************************************************************)
EXTENDS Naturals, Sequences, FiniteSets, TLC

VARIABLES
    issuers,    \* issuer lister: name -> [ready]              (sync.go:20)
    crts,       \* Certificate objects: name -> [issuer, secretName, domains]
    secrets,    \* Secret store: name -> [data]                (sync.go:43,111)
    pc,         \* per Certificate: position of its pass inside sync/issue
    calls,      \* per Certificate: the calls made by its current (or last) pass
    result      \* per Certificate: the value returned by its last pass

vars == <<issuers, crts, secrets, pc, calls, result>>

----------------------------------------------------------------------------
\* Bounds of the model.

\* longest list of domains of a Certificate and of DNS names of a certificate
MaxDomains == 2
\* number of distinct (certificate, key) pairs an issuer can hand out
MaxSerial == 2

CrtNames == {"site", "other"}
SecretNames == {"site-tls", "other-tls"}
IssuerName == "prod-ca"

\* host names, listed in the order sort.Strings puts them in
DomainNames == <<"a.com", "b.com">>

TLSCertKey == "tls.crt"
TLSPrivateKeyKey == "tls.key"

----------------------------------------------------------------------------
\* Strings and sort.Strings.

Rank(s) == CHOOSE i \in 1..Len(DomainNames) : DomainNames[i] = s

StringLess(a, b) == Rank(a) < Rank(b)

\* sort.Strings(s): s in increasing order
sortStrings(s) == SortSeq(s, StringLess)

SeqsUpTo(n) == UNION {[1..k -> {DomainNames[i] : i \in 1..Len(DomainNames)}] : k \in 0..n}

NameSeqs == SeqsUpTo(MaxDomains)

----------------------------------------------------------------------------
\* Byte strings.  A byte string is known by what the decoders make of it:
\* text that is no PEM block, or a PEM block around a DER payload that is
\* junk, an X.509 certificate or a PKCS#1 private key.

Nil == [kind |-> "nil"]

GarbageBytes == [kind |-> "garbage"]

PemBytes(der) == [kind |-> "pem", der |-> der]

JunkDer == [kind |-> "junk"]

\* Where time.Now() falls with respect to a certificate's NotBefore and
\* NotAfter
Periods == {"current", "expired", "notYetValid"}

CertDerIn(names, serial, period) ==
    [kind |-> "x509", dnsNames |-> names, serial |-> serial, period |-> period]

CertDer(names, serial) == CertDerIn(names, serial, "current")

KeyDer(consistent, serial) == [kind |-> "pkcs1", consistent |-> consistent, serial |-> serial]

\* pem.Decode: the block's payload, or nil
pemDecode(bytes) == IF bytes.kind = "pem" THEN bytes.der ELSE Nil

\* x509.ParseCertificate
x509ParseCertificate(der) ==
    IF der.kind = "x509" THEN [err |-> FALSE, cert |-> der]
    ELSE [err |-> TRUE, cert |-> Nil]

\* x509.ParsePKCS1PrivateKey
x509ParsePKCS1PrivateKey(der) ==
    IF der.kind = "pkcs1" THEN [err |-> FALSE, key |-> der]
    ELSE [err |-> TRUE, key |-> Nil]

\* (*rsa.PrivateKey).Validate: nil error iff the key's numbers are consistent
keyValidate(key) == key.consistent

----------------------------------------------------------------------------
\* equalUnsorted (sync.go:161-174).  The slices s1 and s2 are sorted in place;
\* the loop compares s1_2 and s2_2, the two slices that make() has just
\* filled with empty strings.  The value is the returned bool together with
\* the contents of s1 and s2 after the call.

makeStrings(n) == [i \in 1..n |-> ""]

\* A slip in the comparator: the inputs are compared as they come, unsorted.
equalInOrder(s1, s2) ==
    IF Len(s1) # Len(s2)
    THEN [result |-> FALSE, s1 |-> s1, s2 |-> s2]
    ELSE [result |-> \A i \in 1..Len(s1) : s1[i] = s2[i], s1 |-> s1, s2 |-> s2]

equalUnsorted(s1, s2) ==
    IF Len(s1) # Len(s2)
    THEN [result |-> FALSE, s1 |-> s1, s2 |-> s2]
    ELSE LET s1_2 == makeStrings(Len(s1))
             s2_2 == makeStrings(Len(s2))
         IN  [result |-> \A i \in 1..Len(s1_2) : s1_2[i] = s2_2[i],
              s1 |-> sortStrings(s1),
              s2 |-> sortStrings(s2)]

----------------------------------------------------------------------------
\* The checks of sync on a Secret that the lister returned (sync.go:52-98),
\* in the order of the code.  case names the first check that sends the pass
\* to issue, or "Valid"; domains is crt.Spec.Domains after the checks; cmp
\* records the call of equalUnsorted when the checks get that far.

NoCmp == [kind |-> "nil"]

Verdict(case, domains, cmp) == [case |-> case, domains |-> domains, cmp |-> cmp]

\* A slip in the checks: the fields are not required, and a field that is
\* absent is not checked.
syncChecksFieldsOptional(secret, domains) ==
    LET okcert == TLSCertKey \in DOMAIN secret.data
        okkey  == TLSPrivateKeyKey \in DOMAIN secret.data
        certBlock == IF okcert THEN pemDecode(secret.data[TLSCertKey]) ELSE Nil
        keyBlock  == IF okkey THEN pemDecode(secret.data[TLSPrivateKeyKey]) ELSE Nil
    IN
    IF okcert /\ certBlock = Nil THEN Verdict("CorruptCertificate", domains, NoCmp)
    ELSE IF okcert /\ x509ParseCertificate(certBlock).err
    THEN Verdict("CorruptCertificate", domains, NoCmp)
    ELSE IF okkey /\ keyBlock = Nil THEN Verdict("CorruptKey", domains, NoCmp)
    ELSE IF okkey /\ x509ParsePKCS1PrivateKey(keyBlock).err
    THEN Verdict("CorruptKey", domains, NoCmp)
    ELSE IF okkey /\ ~keyValidate(keyBlock) THEN Verdict("InvalidKey", domains, NoCmp)
    ELSE IF ~okcert THEN Verdict("Valid", domains, NoCmp)
    ELSE
    LET eq  == equalUnsorted(domains, certBlock.dnsNames)
        cmp == [kind |-> "cmp", s1 |-> domains, s2 |-> certBlock.dnsNames,
                result |-> eq.result]
    IN
    IF ~eq.result THEN Verdict("DomainMismatch", eq.s1, cmp)
    ELSE Verdict("Valid", eq.s1, cmp)

\* A slip in the checks: step three, which the code has disabled
\* (sync.go:93-96), is in force and sends a certificate that is out of its
\* period to issue.
syncChecksWithExpiry(secret, domains) ==
    LET okcert == TLSCertKey \in DOMAIN secret.data
        okkey  == TLSPrivateKeyKey \in DOMAIN secret.data
    IN
    IF ~okcert \/ ~okkey THEN Verdict("Incomplete", domains, NoCmp)
    ELSE
    LET certBlock == pemDecode(secret.data[TLSCertKey])
        keyBlock  == pemDecode(secret.data[TLSPrivateKeyKey])
    IN
    IF certBlock = Nil THEN Verdict("CorruptCertificate", domains, NoCmp)
    ELSE IF x509ParseCertificate(certBlock).err
    THEN Verdict("CorruptCertificate", domains, NoCmp)
    ELSE IF keyBlock = Nil THEN Verdict("CorruptKey", domains, NoCmp)
    ELSE IF x509ParsePKCS1PrivateKey(keyBlock).err
    THEN Verdict("CorruptKey", domains, NoCmp)
    ELSE IF ~keyValidate(keyBlock) THEN Verdict("InvalidKey", domains, NoCmp)
    ELSE
    LET eq  == equalUnsorted(domains, certBlock.dnsNames)
        cmp == [kind |-> "cmp", s1 |-> domains, s2 |-> certBlock.dnsNames,
                result |-> eq.result]
    IN
    IF ~eq.result THEN Verdict("DomainMismatch", eq.s1, cmp)
    ELSE IF certBlock.period # "current" THEN Verdict("Expired", eq.s1, cmp)
    ELSE Verdict("Valid", eq.s1, cmp)

\* A slip in the checks: the key is checked before the certificate.
syncChecksKeyFirst(secret, domains) ==
    LET okcert == TLSCertKey \in DOMAIN secret.data
        okkey  == TLSPrivateKeyKey \in DOMAIN secret.data
    IN
    IF ~okcert \/ ~okkey THEN Verdict("Incomplete", domains, NoCmp)
    ELSE
    LET certBlock == pemDecode(secret.data[TLSCertKey])
        keyBlock  == pemDecode(secret.data[TLSPrivateKeyKey])
    IN
    IF keyBlock = Nil THEN Verdict("CorruptKey", domains, NoCmp)
    ELSE IF x509ParsePKCS1PrivateKey(keyBlock).err
    THEN Verdict("CorruptKey", domains, NoCmp)
    ELSE IF ~keyValidate(keyBlock) THEN Verdict("InvalidKey", domains, NoCmp)
    ELSE IF certBlock = Nil THEN Verdict("CorruptCertificate", domains, NoCmp)
    ELSE IF x509ParseCertificate(certBlock).err
    THEN Verdict("CorruptCertificate", domains, NoCmp)
    ELSE
    LET eq  == equalUnsorted(domains, certBlock.dnsNames)
        cmp == [kind |-> "cmp", s1 |-> domains, s2 |-> certBlock.dnsNames,
                result |-> eq.result]
    IN
    IF ~eq.result THEN Verdict("DomainMismatch", eq.s1, cmp)
    ELSE Verdict("Valid", eq.s1, cmp)

syncChecks(secret, domains) ==
    LET okcert == TLSCertKey \in DOMAIN secret.data
        okkey  == TLSPrivateKeyKey \in DOMAIN secret.data
    IN
    IF ~okcert \/ ~okkey THEN Verdict("Incomplete", domains, NoCmp)
    ELSE
    LET certBytes == secret.data[TLSCertKey]
        keyBytes  == secret.data[TLSPrivateKeyKey]
        certBlock == pemDecode(certBytes)
    IN
    IF certBlock = Nil THEN Verdict("CorruptCertificate", domains, NoCmp)
    ELSE
    LET parsedCert == x509ParseCertificate(certBlock) IN
    IF parsedCert.err THEN Verdict("CorruptCertificate", domains, NoCmp)
    ELSE
    LET keyBlock == pemDecode(keyBytes) IN
    IF keyBlock = Nil THEN Verdict("CorruptKey", domains, NoCmp)
    ELSE
    LET parsedKey == x509ParsePKCS1PrivateKey(keyBlock) IN
    IF parsedKey.err THEN Verdict("CorruptKey", domains, NoCmp)
    ELSE
    IF ~keyValidate(parsedKey.key) THEN Verdict("InvalidKey", domains, NoCmp)
    ELSE
    LET eq  == equalUnsorted(domains, parsedCert.cert.dnsNames)
        cmp == [kind |-> "cmp", s1 |-> domains, s2 |-> parsedCert.cert.dnsNames,
                result |-> eq.result]
    IN
    IF ~eq.result THEN Verdict("DomainMismatch", eq.s1, cmp)
    ELSE Verdict("Valid", eq.s1, cmp)

----------------------------------------------------------------------------
\* The record of a pass: the calls it made, in order.

Call(op, name, ret, val) == [op |-> op, name |-> name, ret |-> ret, val |-> val]

\* Values returned by sync: NoError is nil, the others are its errors.
Running == "running"
NoError == "nil"
IssuerNotFound == "IssuerNotFound"        \* sync.go:23
IssuerNotReady == "IssuerNotReady"        \* sync.go:27
IssuerForFailed == "IssuerForFailed"      \* sync.go:33
PrepareFailed == "PrepareFailed"          \* sync.go:39
StoreReadFailed == "StoreReadFailed"      \* sync.go:49
IssuanceFailed == "IssuanceFailed"        \* sync.go:107
PersistFailed == "PersistFailed"          \* sync.go:123

Busy(c) == pc[c] \notin {"idle", "done"}

Return(c, value, log) ==
    /\ pc' = [pc EXCEPT ![c] = "done"]
    /\ result' = [result EXCEPT ![c] = value]
    /\ calls' = [calls EXCEPT ![c] = log]

Goto(c, label, log) ==
    /\ pc' = [pc EXCEPT ![c] = label]
    /\ result' = [result EXCEPT ![c] = Running]
    /\ calls' = [calls EXCEPT ![c] = log]

----------------------------------------------------------------------------
\* A slip in the lookup: the ready flag of the issuer is not looked at.
issuerLookupIgnoringReady(lister, name) ==
    IF name \notin DOMAIN lister THEN IssuerNotFound ELSE NoError

\* A slip in the lookup: an issuer that is missing is reported as not ready.
issuerLookupOneError(lister, name) ==
    IF name \notin DOMAIN lister THEN IssuerNotReady
    ELSE IF ~lister[name].ready THEN IssuerNotReady
    ELSE NoError

\* sync.go:20-28: the issuer is looked up in the lister and must be ready
issuerLookup(lister, name) ==
    IF name \notin DOMAIN lister THEN IssuerNotFound
    ELSE IF ~lister[name].ready THEN IssuerNotReady
    ELSE NoError

\* sync.go:18-34: a pass for Certificate c starts.  The issuer is looked up
\* and must be ready; implOk is whether issuer.IssuerFor finds an
\* implementation.
SyncStart(c, implOk) ==
    /\ ~Busy(c)
    /\ LET crt == crts[c]
           err == issuerLookup(issuers, crt.issuer)
           get == Call("IssuerGet", crt.issuer,
                       IF crt.issuer \in DOMAIN issuers THEN "ok" ELSE "NotFound", Nil)
       IN
       IF err # NoError THEN Return(c, err, <<get>>)
       ELSE IF ~implOk
       THEN Return(c, IssuerForFailed, <<get, Call("IssuerFor", crt.issuer, "error", Nil)>>)
       ELSE Goto(c, "prepare", <<get, Call("IssuerFor", crt.issuer, "ok", Nil)>>)
    /\ UNCHANGED <<issuers, crts, secrets>>

\* A slip in sync: the error of Prepare is dropped and the pass goes on.
SyncPrepareErrorDropped(c, ok) ==
    /\ pc[c] = "prepare"
    /\ Goto(c, "read",
            Append(calls[c], Call("Prepare", c, IF ok THEN "ok" ELSE "error", Nil)))
    /\ UNCHANGED <<issuers, crts, secrets>>

\* sync.go:36-40: i.Prepare(crt)
SyncPrepare(c, ok) ==
    /\ pc[c] = "prepare"
    /\ IF ok
       THEN Goto(c, "read", Append(calls[c], Call("Prepare", c, "ok", Nil)))
       ELSE Return(c, PrepareFailed, Append(calls[c], Call("Prepare", c, "error", Nil)))
    /\ UNCHANGED <<issuers, crts, secrets>>

\* A slip in sync: every error of the lister is taken for not-found.
SyncSecretAnyErrorIsMissing(c, readOk) ==
    /\ pc[c] = "read"
    /\ LET name == crts[c].secretName IN
       IF ~readOk
       THEN /\ Goto(c, "issue", Append(calls[c], Call("SecretGet", name, "error", Nil)))
            /\ UNCHANGED crts
       ELSE IF name \notin DOMAIN secrets
       THEN /\ Goto(c, "issue",
                    Append(calls[c], Call("SecretGet", name, "NotFound", Nil)))
            /\ UNCHANGED crts
       ELSE LET secret == secrets[name]
                v == syncChecks(secret, crts[c].domains)
                log == calls[c] \o <<Call("SecretGet", name, "ok", secret),
                                     Call("check", v.case, "", v.cmp)>>
            IN  /\ crts' = [crts EXCEPT ![c].domains = v.domains]
                /\ IF v.case = "Valid"
                   THEN Return(c, NoError, log)
                   ELSE Goto(c, "issue", log)
    /\ UNCHANGED <<issuers, secrets>>

\* sync.go:43-98: the Secret is read from the lister and checked.  readOk is
\* whether the lister answers (with the Secret or with not-found).
SyncSecret(c, readOk) ==
    /\ pc[c] = "read"
    /\ LET name == crts[c].secretName IN
       IF ~readOk
       THEN /\ Return(c, StoreReadFailed,
                      Append(calls[c], Call("SecretGet", name, "error", Nil)))
            /\ UNCHANGED crts
       ELSE IF name \notin DOMAIN secrets
       THEN /\ Goto(c, "issue",
                    Append(calls[c], Call("SecretGet", name, "NotFound", Nil)))
            /\ UNCHANGED crts
       ELSE LET secret == secrets[name]
                v == syncChecks(secret, crts[c].domains)
                log == calls[c] \o <<Call("SecretGet", name, "ok", secret),
                                     Call("check", v.case, "", v.cmp)>>
            IN  /\ crts' = [crts EXCEPT ![c].domains = v.domains]
                /\ IF v.case = "Valid"
                   THEN Return(c, NoError, log)
                   ELSE Goto(c, "issue", log)
    /\ UNCHANGED <<issuers, secrets>>

\* What issuer.Issue hands back for a Certificate: a certificate for its
\* domains and a consistent key.
IssuedData(domains, serial) ==
    (TLSCertKey :> PemBytes(CertDer(domains, serial)))
    @@ (TLSPrivateKeyKey :> PemBytes(KeyDer(TRUE, serial)))

\* A slip in issue: the error of Issue is dropped and the (empty) result is
\* stored.
IssueCallErrorDropped(c, ok, serial) ==
    /\ pc[c] = "issue"
    /\ Goto(c, "create",
            Append(calls[c],
                   Call("Issue", c, IF ok THEN "ok" ELSE "error",
                        [data |-> IF ok THEN IssuedData(crts[c].domains, serial)
                                  ELSE (TLSCertKey :> GarbageBytes)
                                       @@ (TLSPrivateKeyKey :> GarbageBytes)])))
    /\ UNCHANGED <<issuers, crts, secrets>>

\* sync.go:105-108: issuer.Issue(crt)
IssueCall(c, ok, serial) ==
    /\ pc[c] = "issue"
    /\ IF ok
       THEN Goto(c, "create",
                 Append(calls[c],
                        Call("Issue", c, "ok",
                             [data |-> IssuedData(crts[c].domains, serial)])))
       ELSE Return(c, IssuanceFailed, Append(calls[c], Call("Issue", c, "error", Nil)))
    /\ UNCHANGED <<issuers, crts, secrets>>

\* A slip in issue: the two fields of the Secret are filled the wrong way round.
NewSecretSwapped(cert, key) == [data |-> (TLSCertKey :> key) @@ (TLSPrivateKeyKey :> cert)]

\* The Secret that issue builds from what Issue returned (sync.go:111-120)
NewSecret(cert, key) == [data |-> (TLSCertKey :> cert) @@ (TLSPrivateKeyKey :> key)]

\* A slip in issue: the Secret is written with Update semantics, as the
\* disabled renew does, so a name that is taken is overwritten.
StoreUpsert(store, name, secret, storeOk) ==
    IF ~storeOk THEN [ret |-> "error", store |-> store]
    ELSE [ret |-> "ok", store |-> [n \in DOMAIN store \cup {name} |->
                                      IF n = name THEN secret ELSE store[n]]]

\* The API server's Create: a name that is taken is refused (AlreadyExists);
\* storeOk is whether the request gets through otherwise.
StoreCreate(store, name, secret, storeOk) ==
    IF name \in DOMAIN store THEN [ret |-> "AlreadyExists", store |-> store]
    ELSE IF ~storeOk THEN [ret |-> "error", store |-> store]
    ELSE [ret |-> "ok", store |-> (name :> secret) @@ store]

\* What issue returns for the outcome of Create (sync.go:122-126)
IssueReturn(createRet) == IF createRet # "ok" THEN PersistFailed ELSE NoError

\* A slip in issue: the Secret is created under the name of the Certificate
\* instead of its secretName.
IssueCreateUnderCrtName(c, storeOk) ==
    /\ pc[c] = "create"
    /\ LET issued == calls[c][Len(calls[c])].val.data
           name == c
           secret == NewSecret(issued[TLSCertKey], issued[TLSPrivateKeyKey])
           r == StoreCreate(secrets, name, secret, storeOk)
       IN  /\ secrets' = r.store
           /\ Return(c, IssueReturn(r.ret),
                     Append(calls[c], Call("Create", name, r.ret, secret)))
    /\ UNCHANGED <<issuers, crts>>

\* sync.go:111-126: the Secret is created and issue returns
IssueCreate(c, storeOk) ==
    /\ pc[c] = "create"
    /\ LET issued == calls[c][Len(calls[c])].val.data
           name == crts[c].secretName
           secret == NewSecret(issued[TLSCertKey], issued[TLSPrivateKeyKey])
           r == StoreCreate(secrets, name, secret, storeOk)
       IN  /\ secrets' = r.store
           /\ Return(c, IssueReturn(r.ret),
                     Append(calls[c], Call("Create", name, r.ret, secret)))
    /\ UNCHANGED <<issuers, crts>>

----------------------------------------------------------------------------
\* The states a pass can find.

\* Contents of the certificate field and of the key field of a Secret
StoredCerts ==
    {GarbageBytes, PemBytes(JunkDer)} \cup {PemBytes(CertDer(names, 0)) : names \in NameSeqs}

StoredKeys ==
    {GarbageBytes, PemBytes(JunkDer), PemBytes(KeyDer(FALSE, 0)), PemBytes(KeyDer(TRUE, 0))}

\* Certificates that have expired or are not valid yet
StoredCertsOutOfPeriod ==
    {PemBytes(CertDerIn(names, 0, period)) :
        names \in NameSeqs, period \in Periods \ {"current"}}

\* Secrets with both fields, one field or none.  The certificates out of
\* their period come with a consistent key, so that the checks get past the
\* key.
StoredSecrets ==
    {NewSecret(cert, key) : cert \in StoredCerts, key \in StoredKeys}
    \cup {NewSecret(cert, PemBytes(KeyDer(TRUE, 0))) : cert \in StoredCertsOutOfPeriod}
    \cup {[data |-> (TLSCertKey :> cert)] : cert \in StoredCerts}
    \cup {[data |-> (TLSPrivateKeyKey :> key)] : key \in StoredKeys}
    \cup {[data |-> [k \in {} |-> Nil]]}

Stores == UNION {[S -> StoredSecrets] : S \in SUBSET SecretNames}

Issuers == {[n \in {} |-> Nil]} \cup {(IssuerName :> [ready |-> r]) : r \in BOOLEAN}

\* Whether the checks of sync on the Secret stored under name get as far as
\* the comparison of the domains
ReachesCompare(store, name) ==
    /\ name \in DOMAIN store
    /\ syncChecks(store[name], <<>>).cmp # NoCmp

\* The domains a Certificate asks for.  A Secret that fails one of the checks
\* before the comparison is tried with one list of domains, the others (and a
\* free name) with every list.
RequestedDomains(store, name) ==
    IF name \notin DOMAIN store \/ ReachesCompare(store, name)
    THEN NameSeqs
    ELSE {<<"a.com">>}

Init ==
    /\ issuers \in Issuers
    /\ secrets \in {s \in Stores :
                      "other-tls" \in DOMAIN s =>
                          s["other-tls"] = NewSecret(GarbageBytes, GarbageBytes)}
    /\ \E domains \in RequestedDomains(secrets, "site-tls"), name \in SecretNames :
          crts = [c \in CrtNames |->
                    IF c = "site"
                    THEN [issuer |-> IssuerName, secretName |-> "site-tls",
                          domains |-> domains]
                    ELSE [issuer |-> IssuerName, secretName |-> name,
                          domains |-> <<"b.com", "a.com">>]]
    /\ pc = [c \in CrtNames |-> "idle"]
    /\ calls = [c \in CrtNames |-> <<>>]
    /\ result = [c \in CrtNames |-> NoError]

Serials == 1..MaxSerial

Next ==
    \E c \in CrtNames :
        \/ \E implOk \in BOOLEAN : SyncStart(c, implOk)
        \/ \E ok \in BOOLEAN : SyncPrepare(c, ok)
        \/ \E readOk \in BOOLEAN : SyncSecret(c, readOk)
        \/ \E ok \in BOOLEAN, serial \in Serials : IssueCall(c, ok, serial)
        \/ \E storeOk \in BOOLEAN : IssueCreate(c, storeOk)

Spec == Init /\ [][Next]_vars

----------------------------------------------------------------------------
\* The passes in normal operation: nothing outside the core fails (the issuer
\* is ready, and IssuerFor, Prepare, the lister, Issue and the API server do
\* their part) and no two Certificates name the same Secret.  The work queue
\* brings every Certificate back again and again, and a pass that has started
\* runs to its return.  No check looks at the period of a certificate, so
\* the stored certificates are taken within theirs.

FairInit ==
    /\ Init
    /\ issuers = (IssuerName :> [ready |-> TRUE])
    /\ \A c, d \in CrtNames : c # d => crts[c].secretName # crts[d].secretName
    /\ \A n \in DOMAIN secrets :
          TLSCertKey \in DOMAIN secrets[n].data =>
              secrets[n].data[TLSCertKey] \notin StoredCertsOutOfPeriod

Pass(c) ==
    \/ SyncStart(c, TRUE)
    \/ SyncPrepare(c, TRUE)
    \/ SyncSecret(c, TRUE)
    \/ \E serial \in Serials : IssueCall(c, TRUE, serial)
    \/ IssueCreate(c, TRUE)

FairNext == \E c \in CrtNames : Pass(c)

FairSpec == FairInit /\ [][FairNext]_vars /\ \A c \in CrtNames : WF_vars(Pass(c))

----------------------------------------------------------------------------
\* Vocabulary of the properties.

Done(c) == pc[c] = "done"

Ops(c) == [i \in DOMAIN calls[c] |-> calls[c][i].op]

HasCall(c, op) == \E i \in DOMAIN calls[c] : calls[c][i].op = op

CountCalls(c, op) == Cardinality({i \in DOMAIN calls[c] : calls[c][i].op = op})

TheCall(c, op) == calls[c][CHOOSE i \in DOMAIN calls[c] : calls[c][i].op = op]

\* The pass of c read the store and got answer ret
ReadGave(c, ret) == HasCall(c, "SecretGet") /\ TheCall(c, "SecretGet").ret = ret

\* No call of the pass of c failed
NoCallFailed(c) ==
    \A i \in DOMAIN calls[c] : calls[c][i].ret \notin {"error", "AlreadyExists"}

\* The same names, whatever the order
SameNames(a, b) == Len(a) = Len(b) /\ sortStrings(a) = sortStrings(b)

\* A Secret that is valid for a list of domains: both fields are there, both
\* decode and parse, the key is consistent and the certificate's names are
\* the domains.
ValidFor(secret, domains) ==
    /\ TLSCertKey \in DOMAIN secret.data
    /\ TLSPrivateKeyKey \in DOMAIN secret.data
    /\ secret.data[TLSCertKey].kind = "pem"
    /\ secret.data[TLSCertKey].der.kind = "x509"
    /\ secret.data[TLSPrivateKeyKey].kind = "pem"
    /\ secret.data[TLSPrivateKeyKey].der.kind = "pkcs1"
    /\ secret.data[TLSPrivateKeyKey].der.consistent
    /\ SameNames(secret.data[TLSCertKey].der.dnsNames, domains)

----------------------------------------------------------------------------
\* C1: a pass that finds the issuer ready and no Secret under the name, and
\* whose Prepare, Issue and Create all succeed, calls Issue once and Create
\* once, under the Certificate's secretName and with the certificate and key
\* that Issue returned; the Secret in the store is that one, and the pass
\* returns no error.
C1_IssueOnMissing ==
    \A c \in CrtNames :
        (Done(c) /\ ReadGave(c, "NotFound") /\ NoCallFailed(c)) =>
            /\ Ops(c) = <<"IssuerGet", "IssuerFor", "Prepare", "SecretGet", "Issue", "Create">>
            /\ TheCall(c, "Issue").name = c
            /\ TheCall(c, "Create").name = crts[c].secretName
            /\ TheCall(c, "Create").val.data = TheCall(c, "Issue").val.data
            /\ crts[c].secretName \in DOMAIN secrets
            /\ secrets[crts[c].secretName].data = TheCall(c, "Issue").val.data
            /\ result[c] = NoError

C1_Witness ==
    \E c \in CrtNames :
        /\ Done(c) /\ ReadGave(c, "NotFound") /\ NoCallFailed(c)
        /\ HasCall(c, "Create")
        /\ TheCall(c, "Create").ret = "ok"
        /\ result[c] = NoError

\* C2: a pass that reads a Secret that is valid for the Certificate's domains
\* returns no error without calling Issue and without calling Create.
C2_NoOpOnValid ==
    \A c \in CrtNames :
        (ReadGave(c, "ok") /\ ValidFor(TheCall(c, "SecretGet").val, crts[c].domains)) =>
            /\ Done(c)
            /\ result[c] = NoError
            /\ ~HasCall(c, "Issue")
            /\ ~HasCall(c, "Create")
            /\ secrets[crts[c].secretName] = TheCall(c, "SecretGet").val

\* a valid Secret whose names come in another order than the domains
C2_Witness ==
    \E c \in CrtNames :
        /\ Done(c) /\ ReadGave(c, "ok")
        /\ ValidFor(TheCall(c, "SecretGet").val, crts[c].domains)
        /\ TheCall(c, "check").val.s1 # TheCall(c, "check").val.s2
        /\ result[c] = NoError

\* C3: when the passes of two Certificates with the same secretName both
\* find no Secret and both get a certificate from Issue, and the store
\* refuses nothing but the duplicate, one Create succeeds, the other gets
\* AlreadyExists, and both passes return no error.
C3_DuplicateCreateBenign ==
    \A c1, c2 \in CrtNames :
        (/\ c1 # c2
         /\ crts[c1].secretName = crts[c2].secretName
         /\ Done(c1) /\ Done(c2)
         /\ ReadGave(c1, "NotFound") /\ ReadGave(c2, "NotFound")
         /\ HasCall(c1, "Create") /\ HasCall(c2, "Create")
         /\ TheCall(c1, "Create").ret # "error"
         /\ TheCall(c2, "Create").ret # "error") =>
            /\ {TheCall(c1, "Create").ret, TheCall(c2, "Create").ret} = {"ok", "AlreadyExists"}
            /\ result[c1] = NoError
            /\ result[c2] = NoError

\* C4: a step never changes or removes a Secret that is in the store; all it
\* can do to the store is add a Secret under a free name.
C4_CreateOnly ==
    [][\A n \in DOMAIN secrets : n \in DOMAIN secrets' /\ secrets'[n] = secrets[n]]_vars

\* a pass whose Create came second: the Secret in the store is not the one it
\* tried to write
C4_Witness ==
    \E c \in CrtNames :
        /\ Done(c) /\ HasCall(c, "Create")
        /\ TheCall(c, "Create").ret = "AlreadyExists"
        /\ ReadGave(c, "NotFound")
        /\ secrets[crts[c].secretName] # TheCall(c, "Create").val

\* C5: a pass that reads a Secret with both fields whose certificate field is
\* no PEM block, and whose Prepare and Issue succeed, calls Issue and
\* returns no error.
C5_CorruptCertNoError ==
    \A c \in CrtNames :
        (/\ Done(c) /\ ReadGave(c, "ok")
         /\ DOMAIN TheCall(c, "SecretGet").val.data = {TLSCertKey, TLSPrivateKeyKey}
         /\ pemDecode(TheCall(c, "SecretGet").val.data[TLSCertKey]) = Nil
         /\ ~(HasCall(c, "Issue") /\ TheCall(c, "Issue").ret = "error")) =>
            /\ HasCall(c, "Issue")
            /\ result[c] = NoError

\* The Secret stored under the secretName of c is there and valid for c
StoredValid(c) ==
    /\ crts[c].secretName \in DOMAIN secrets
    /\ ValidFor(secrets[crts[c].secretName], crts[c].domains)

\* No other Certificate names the secretName of c
Unshared(c) == \A d \in CrtNames \ {c} : crts[d].secretName # crts[c].secretName

\* C6, as claimed: when nothing outside the core fails and the passes keep
\* coming, a Secret that is stored but not valid for the Certificate is
\* replaced in the end by one that is.
C6_SelfHealConverges ==
    \A c \in CrtNames :
        (crts[c].secretName \in DOMAIN secrets /\ ~StoredValid(c) /\ Unshared(c))
            ~> StoredValid(c)

\* C6, amended: when nothing outside the core fails and the passes keep
\* coming, a secretName that is free and that no other Certificate names gets
\* in the end a Secret that is valid for the Certificate.
C6_ConvergesFromMissing ==
    \A c \in CrtNames :
        (crts[c].secretName \notin DOMAIN secrets /\ Unshared(c)) ~> StoredValid(c)

\* the pass of c found the name free and its Secret is now the stored one
C6_Witness ==
    \E c \in CrtNames :
        /\ Unshared(c)
        /\ Done(c) /\ ReadGave(c, "NotFound")
        /\ HasCall(c, "Create") /\ TheCall(c, "Create").ret = "ok"
        /\ StoredValid(c)
        /\ crts[c].domains # sortStrings(crts[c].domains)

\* C7: in a pass that got an answer from the store, Issue is called iff no
\* Secret was found or the Secret found is not valid for the domains.
C7_IssueIffNotValid ==
    \A c \in CrtNames :
        (Done(c) /\ (ReadGave(c, "ok") \/ ReadGave(c, "NotFound"))) =>
            (HasCall(c, "Issue") <=>
                (\/ ReadGave(c, "NotFound")
                 \/ ~ValidFor(TheCall(c, "SecretGet").val, crts[c].domains)))

\* C8: equalUnsorted is true iff its inputs have the same length and are the
\* same once each is sorted.
C8_ComparatorIsSortedEquality ==
    \A c \in CrtNames :
        (HasCall(c, "check") /\ TheCall(c, "check").val # NoCmp) =>
            (TheCall(c, "check").val.result <=>
                SameNames(TheCall(c, "check").val.s1, TheCall(c, "check").val.s2))

\* C9: the pass of a Certificate whose issuer is there but not ready returns
\* IssuerNotReady and makes no call after the lookup: no Prepare, no read of
\* the store, no Issue, no Create.
C9_IssuerNotReady ==
    \A c \in CrtNames :
        (/\ pc[c] # "idle"
         /\ crts[c].issuer \in DOMAIN issuers
         /\ ~issuers[crts[c].issuer].ready) =>
            /\ Done(c)
            /\ result[c] = IssuerNotReady
            /\ Ops(c) = <<"IssuerGet">>

C9_Witness ==
    \E c \in CrtNames :
        /\ Done(c)
        /\ crts[c].issuer \in DOMAIN issuers
        /\ ~issuers[crts[c].issuer].ready
        /\ result[c] = IssuerNotReady

\* C10: the pass of a Certificate whose issuer is not in the lister returns
\* IssuerNotFound and makes no call after the lookup.
C10_IssuerNotFound ==
    \A c \in CrtNames :
        (pc[c] # "idle" /\ crts[c].issuer \notin DOMAIN issuers) =>
            /\ Done(c)
            /\ result[c] = IssuerNotFound
            /\ Ops(c) = <<"IssuerGet">>

C10_Witness ==
    \E c \in CrtNames :
        /\ Done(c)
        /\ crts[c].issuer \notin DOMAIN issuers
        /\ result[c] = IssuerNotFound

\* C11: a pass whose read of the store fails otherwise than with not-found
\* returns that error; the read is its last call, so it calls neither Issue
\* nor Create.  A pass that is on its way to Issue without having checked a
\* Secret got not-found from the store.
C11_ReadFailureIsReturned ==
    \A c \in CrtNames :
        /\ ReadGave(c, "error") =>
              /\ Done(c)
              /\ result[c] = StoreReadFailed
              /\ Ops(c) = <<"IssuerGet", "IssuerFor", "Prepare", "SecretGet">>
        /\ ((pc[c] \in {"issue", "create"} \/ HasCall(c, "Issue")) /\ ~HasCall(c, "check")) =>
              ReadGave(c, "NotFound")

C11_Witness ==
    \E c \in CrtNames :
        /\ Done(c) /\ ReadGave(c, "error")
        /\ result[c] = StoreReadFailed
        /\ crts[c].secretName \notin DOMAIN secrets

\* C12, as claimed: the store is read only after Prepare has returned
\* success; a pass in which IssuerFor or Prepare fails returns that error and
\* makes no further call; and every pass with a ready issuer calls Prepare.
C12_PrepareInEveryReadyPass ==
    \A c \in CrtNames :
        /\ HasCall(c, "SecretGet") =>
              /\ Len(calls[c]) >= 4
              /\ calls[c][3] = Call("Prepare", c, "ok", Nil)
              /\ calls[c][4].op = "SecretGet"
        /\ (HasCall(c, "IssuerFor") /\ TheCall(c, "IssuerFor").ret = "error") =>
              /\ Done(c) /\ result[c] = IssuerForFailed
              /\ Ops(c) = <<"IssuerGet", "IssuerFor">>
        /\ (HasCall(c, "Prepare") /\ TheCall(c, "Prepare").ret = "error") =>
              /\ Done(c) /\ result[c] = PrepareFailed
              /\ Ops(c) = <<"IssuerGet", "IssuerFor", "Prepare">>
        /\ (Done(c) /\ issuerLookup(issuers, crts[c].issuer) = NoError) =>
              HasCall(c, "Prepare")

\* C12, amended: as above, but Prepare is called in every pass with a ready
\* issuer whose implementation IssuerFor has found, the passes that return
\* without issuing included.
C12_PrepareBeforeRead ==
    \A c \in CrtNames :
        /\ HasCall(c, "SecretGet") =>
              /\ Len(calls[c]) >= 4
              /\ calls[c][3] = Call("Prepare", c, "ok", Nil)
              /\ calls[c][4].op = "SecretGet"
        /\ (HasCall(c, "IssuerFor") /\ TheCall(c, "IssuerFor").ret = "error") =>
              /\ Done(c) /\ result[c] = IssuerForFailed
              /\ Ops(c) = <<"IssuerGet", "IssuerFor">>
        /\ (HasCall(c, "Prepare") /\ TheCall(c, "Prepare").ret = "error") =>
              /\ Done(c) /\ result[c] = PrepareFailed
              /\ Ops(c) = <<"IssuerGet", "IssuerFor", "Prepare">>
        /\ (Done(c) /\ HasCall(c, "IssuerFor") /\ TheCall(c, "IssuerFor").ret = "ok") =>
              HasCall(c, "Prepare")

\* a pass that found a valid Secret and returned without issuing had called
\* Prepare first
C12_Witness ==
    \E c \in CrtNames :
        /\ Done(c) /\ result[c] = NoError
        /\ ~HasCall(c, "Issue")
        /\ Ops(c) = <<"IssuerGet", "IssuerFor", "Prepare", "SecretGet", "check">>

\* C13: no step changes a Certificate: its issuer, its secretName and its
\* domains, the order of the domains included, stay as they were.
C13_CertificateNeverMutated ==
    [][\A c \in CrtNames : crts'[c] = crts[c]]_vars

\* C14: a pass that reads a Secret without its key field, or without its
\* certificate field, goes to issue whatever the other field holds: it never
\* returns without having called Issue.
C14_IncompleteTriggersIssue ==
    \A c \in CrtNames :
        (ReadGave(c, "ok")
         /\ DOMAIN TheCall(c, "SecretGet").val.data # {TLSCertKey, TLSPrivateKeyKey}) =>
            /\ TheCall(c, "check").name = "Incomplete"
            /\ pc[c] \in {"issue", "create", "done"}
            /\ Done(c) => HasCall(c, "Issue")

\* the key field is missing and the certificate alone would pass for the
\* domains
C14_Witness ==
    \E c \in CrtNames :
        /\ Done(c) /\ ReadGave(c, "ok") /\ HasCall(c, "Issue")
        /\ DOMAIN TheCall(c, "SecretGet").val.data = {TLSCertKey}
        /\ ValidFor(NewSecret(TheCall(c, "SecretGet").val.data[TLSCertKey],
                              PemBytes(KeyDer(TRUE, 0))),
                    crts[c].domains)

\* C15: a pass whose Issue fails returns IssuanceFailed, and Issue is its
\* last call: Create is not called.
C15_IssueFailureIsReturned ==
    \A c \in CrtNames :
        (HasCall(c, "Issue") /\ TheCall(c, "Issue").ret = "error") =>
            /\ Done(c)
            /\ result[c] = IssuanceFailed
            /\ calls[c][Len(calls[c])].op = "Issue"
            /\ ~HasCall(c, "Create")

\* Issue failed on a name that is free, and the name is still free
C15_Witness ==
    \E c \in CrtNames :
        /\ Done(c) /\ result[c] = IssuanceFailed
        /\ ReadGave(c, "NotFound")
        /\ crts[c].secretName \notin DOMAIN secrets

\* The pass of c takes a step
Steps(c) == pc'[c] # pc[c] \/ calls'[c] # calls[c] \/ result'[c] # result[c]

\* C16: a pass reads and creates Secrets under the secretName of its own
\* Certificate only, and a step of the pass of c, whatever it returns, leaves
\* every Secret under another name, every other Certificate, every other
\* pass and the issuers as they were.  So a pass of a Certificate with
\* another secretName changes nothing that the pass of c reads or writes.
C16_PassesAreIsolated ==
    /\ [](\A c \in CrtNames : \A i \in DOMAIN calls[c] :
            calls[c][i].op \in {"SecretGet", "Create"} =>
                calls[c][i].name = crts[c].secretName)
    /\ [][\A c \in CrtNames :
            Steps(c) =>
                /\ \A n \in (DOMAIN secrets \cup DOMAIN secrets') \ {crts[c].secretName} :
                      /\ n \in DOMAIN secrets
                      /\ n \in DOMAIN secrets'
                      /\ secrets'[n] = secrets[n]
                /\ \A d \in CrtNames \ {c} :
                      /\ crts'[d] = crts[d]
                      /\ pc'[d] = pc[d]
                      /\ calls'[d] = calls[d]
                      /\ result'[d] = result[d]
                /\ issuers' = issuers]_vars

\* two Certificates with different secretNames: the pass of one failed at
\* Create, the Secret that the pass of the other created is in the store
C16_Witness ==
    \E c, d \in CrtNames :
        /\ crts[c].secretName # crts[d].secretName
        /\ Done(c) /\ result[c] = PersistFailed
        /\ Done(d) /\ result[d] = NoError
        /\ HasCall(d, "Create")
        /\ secrets[crts[d].secretName] = TheCall(d, "Create").val

\* The Secret with its certificate moved to another period
InPeriod(secret, period) ==
    [data |-> [k \in DOMAIN secret.data |->
                  IF k = TLSCertKey /\ secret.data[k].kind = "pem"
                     /\ secret.data[k].der.kind = "x509"
                  THEN PemBytes(CertDerIn(secret.data[k].der.dnsNames,
                                          secret.data[k].der.serial, period))
                  ELSE secret.data[k]]]

\* C17: what the checks make of a Secret does not depend on the period of its
\* certificate, and a pass that reads a Secret that is valid for the domains
\* but whose certificate has expired or is not valid yet returns no error
\* without calling Issue.
C17_ExpiryNotEvaluated ==
    \A c \in CrtNames :
        ReadGave(c, "ok") =>
            LET secret == TheCall(c, "SecretGet").val IN
            /\ \A period \in Periods :
                  syncChecks(InPeriod(secret, period), crts[c].domains).case
                      = TheCall(c, "check").name
            /\ (ValidFor(secret, crts[c].domains)
                /\ secret.data[TLSCertKey].der.period # "current") =>
                  /\ Done(c)
                  /\ result[c] = NoError
                  /\ ~HasCall(c, "Issue")

C17_Witness ==
    \E c \in CrtNames :
        /\ Done(c) /\ ReadGave(c, "ok")
        /\ ValidFor(TheCall(c, "SecretGet").val, crts[c].domains)
        /\ TheCall(c, "SecretGet").val.data[TLSCertKey].der.period = "expired"
        /\ result[c] = NoError
        /\ ~HasCall(c, "Issue")

\* The checks of a stored Secret, each taken on its own, in the order
\* fields-present, certificate decode, certificate parse, key decode, key
\* parse, key validate, domain compare: whether the Secret fails it.
CheckFails(secret, domains) ==
    LET okcert == TLSCertKey \in DOMAIN secret.data
        okkey  == TLSPrivateKeyKey \in DOMAIN secret.data
        certBlock == IF okcert THEN pemDecode(secret.data[TLSCertKey]) ELSE Nil
        keyBlock  == IF okkey THEN pemDecode(secret.data[TLSPrivateKeyKey]) ELSE Nil
    IN  << ~okcert \/ ~okkey,
           certBlock = Nil,
           x509ParseCertificate(certBlock).err,
           keyBlock = Nil,
           x509ParsePKCS1PrivateKey(keyBlock).err,
           x509ParsePKCS1PrivateKey(keyBlock).err \/ ~keyValidate(keyBlock),
           x509ParseCertificate(certBlock).err
               \/ ~equalUnsorted(domains, certBlock.dnsNames).result >>

CheckCases ==
    << "Incomplete", "CorruptCertificate", "CorruptCertificate", "CorruptKey",
       "CorruptKey", "InvalidKey", "DomainMismatch" >>

\* The case of the first check in the order that the Secret fails
FirstFailing(secret, domains) ==
    LET fails == CheckFails(secret, domains)
        failing == {i \in DOMAIN fails : fails[i]}
    IN  IF failing = {} THEN "Valid"
        ELSE CheckCases[CHOOSE i \in failing : \A j \in failing : i <= j]

\* C18: a pass calls Issue at most once and Create at most once; Create is
\* its last call, comes right after an Issue that succeeded and carries what
\* that Issue returned; nothing is read or checked once Issue has been
\* called; and the check that sends the pass to issue is the first one in the
\* order that the stored Secret fails.
C18_CallDiscipline ==
    \A c \in CrtNames :
        /\ CountCalls(c, "Issue") <= 1
        /\ CountCalls(c, "Create") <= 1
        /\ \A i \in DOMAIN calls[c] :
              /\ calls[c][i].op = "Create" =>
                    /\ i = Len(calls[c])
                    /\ i > 1
                    /\ calls[c][i - 1].op = "Issue"
                    /\ calls[c][i - 1].ret = "ok"
                    /\ calls[c][i].val.data = calls[c][i - 1].val.data
              /\ calls[c][i].op = "Issue" =>
                    \A j \in DOMAIN calls[c] : j > i => calls[c][j].op = "Create"
        /\ HasCall(c, "check") =>
              /\ TheCall(c, "check").name =
                     FirstFailing(TheCall(c, "SecretGet").val, crts[c].domains)
              /\ (TheCall(c, "check").name # "Valid") <=>
                     (pc[c] \in {"issue", "create"} \/ HasCall(c, "Issue"))

\* a Secret that fails two checks, the certificate's and the key's: the pass
\* went to issue for the certificate and ran to its Create
C18_Witness ==
    \E c \in CrtNames :
        /\ Done(c) /\ HasCall(c, "check") /\ HasCall(c, "Create")
        /\ TheCall(c, "check").name = "CorruptCertificate"
        /\ CheckFails(TheCall(c, "SecretGet").val, crts[c].domains)[4]

====
